---- MODULE Spec2Model ----
(***************************************************************************)
(* A model of the visualize-it frontend: the Plotly payload validator and  *)
(* repair helpers of VisualizationDisplay, the rendering decision of that  *)
(* component, the DataInput panel with the App state it feeds, and the     *)
(* timing of one generation request.                                       *)
(***************************************************************************)
EXTENDS Integers, Sequences, FiniteSets, TLC

VARIABLES
    \* ---- the validator / repair helpers applied to one payload
    rpc,            \* "input" | "checked" | "once" | "twice"
    rdata,          \* the payload handed to the helpers
    rverdict,       \* what isValidPlotlyData did with rdata
    rs1,            \* sanitizePlotlyData(rdata)
    rs2,            \* sanitizePlotlyData(rs1)
    \* ---- the VisualizationDisplay component
    visualization,  \* the visualization prop
    plotlyError,    \* useState(null): Absent, or the message shown
    isRetrying,     \* useState(false)
    lastEvent,      \* the handler that ran last (history, for the witnesses)
    retryRequest,   \* the request handleRetryVisualization sent last, or NoRequest
    dispatched,     \* the event it dispatched on window last, or NoEvent
    \* ---- the DataInput panel with its ModelSelector
    text,               \* the textarea
    lastProcessedText,
    error,
    selectedModel,
    isProcessing,
    request,            \* the generation request in flight, or NoRequest
    models,             \* ModelSelector: the models listed
    msLoading,          \* ModelSelector: loading
    msError,            \* ModelSelector: error
    fetches,            \* the /api/models requests in flight
    \* ---- App
    visualizationData,
    selectedVisualization,
    loading,
    \* ---- the timing of the generation request in flight
    sinceSent,      \* ms since the client sent the request in flight
    backend,        \* the backend's handling of the last request sent
    fate,           \* how that request ended for the client
    \* ---- getPlotlyLayout applied to one visualization
    lpc,            \* "input" | "done"
    lviz,           \* the visualization handed to getPlotlyLayout
    layout,         \* what it returned
    \* ---- the LoggingService
    logQueue,           \* the entries queued, oldest first
    isProcessingQueue,
    sending,            \* the entries whose send is awaited, by id
    timers,             \* the pending setTimeout callbacks: ms since each was set
    logged,             \* entries queued so far (the id of the last one)
    attempts,           \* sends started so far, per entry id (history)
    removed,            \* ids of the entries taken off the queue (history)
    sinceAttempt,       \* ms since the last attempt ended with entries left, or Never
    logFault,           \* TRUE once processQueue's promise was rejected
    \* ---- the rest of the page
    editorError,        \* PlotlyEditor: useState(null), Absent or the message
    activeView,         \* App: 'main' or 'logs'
    orphaned,           \* the requests in flight of DataInput instances since unmounted
    serverStatus,       \* DataInput: useState(null)
    statusCheck         \* checkServerStatus: where it is, and what the fallback got

repairVars == <<rpc, rdata, rverdict, rs1, rs2>>
displayVars == <<visualization, plotlyError, isRetrying, lastEvent, retryRequest, dispatched>>
inputVars == <<text, lastProcessedText, error, selectedModel, isProcessing, request,
               models, msLoading, msError, fetches>>
appVars == <<visualizationData, selectedVisualization, loading>>
timingVars == <<sinceSent, backend, fate>>
layoutVars == <<lpc, lviz, layout>>
logVars == <<logQueue, isProcessingQueue, sending, timers, logged, attempts, removed,
             sinceAttempt, logFault>>
pageVars == <<editorError, activeView, orphaned, serverStatus, statusCheck>>
vars == <<repairVars, displayVars, inputVars, appVars, timingVars, layoutVars, logVars,
          pageVars>>

\* what the actions of one component leave alone
outsideRepair == <<displayVars, inputVars, appVars, timingVars, layoutVars, logVars,
    pageVars>>
outsideDisplay == <<repairVars, inputVars, appVars, timingVars, layoutVars, logVars,
    pageVars>>
outsidePanel == <<repairVars, displayVars, layoutVars, logVars,
    pageVars>>
\* what the in-chart retry leaves alone: it reaches App through its event
outsideRetry == <<repairVars, inputVars, timingVars, layoutVars, logVars,
    pageVars>>
outsideLayout == <<repairVars, displayVars, inputVars, appVars, timingVars, logVars,
    pageVars>>
\* what the panel and the LoggingService together leave alone
outsideLogging == <<repairVars, displayVars, timingVars, layoutVars,
    pageVars>>

----------------------------------------------------------------------------
(* Bounds of the model *)

\* longest array carried by a trace field
MaxArrLen == 2
\* longest trace list
MaxTraces == 2
\* most visualizations in one response
MaxViz == 2
\* most entries the LoggingService is given in one behaviour
MaxLogs == 2

\* requests of unmounted panels that are followed to their end
MaxOrphans == 1

----------------------------------------------------------------------------
(* JavaScript values.  A field value is absent (undefined), a scalar       *)
(* number, or an array of numbers; every value is one record shape so that *)
(* values of different kinds can be compared.                              *)

Absent == "undefined"

Undef == [k |-> "undef", n |-> 0, a |-> <<>>]
Num(n) == [k |-> "num", n |-> n, a |-> <<>>]
Arr(s) == [k |-> "arr", n |-> 0, a |-> s]

\* Array.isArray(v)
IsArray(v) == v.k = "arr"

\* JavaScript truthiness of a field value: undefined and 0 are falsy, every
\* array (the empty one too) and every other number is truthy
Truthy(v) == \/ v.k = "arr"
             \/ v.k = "num" /\ v.n # 0

\* truthiness of a string-valued property (type, mode, error, sourceText)
TruthyStr(s) == s # Absent /\ s # ""

\* A trace: null, a primitive (a number), or an object with the properties
\* the helpers read.
NullTrace == [k |-> "null", type |-> Absent, mode |-> Absent,
              x |-> Undef, y |-> Undef, values |-> Undef, labels |-> Undef]
PrimTrace == [NullTrace EXCEPT !.k = "prim"]
EmptyObject == [NullTrace EXCEPT !.k = "obj"]

\* A payload (plotlyData): undefined/null, a truthy non-array (an object),
\* or an array of traces.
NoData == [k |-> "null", t |-> <<>>]
ObjectData == [k |-> "obj", t |-> <<>>]
ArrayData(ts) == [k |-> "arr", t |-> ts]

----------------------------------------------------------------------------
(* isValidPlotlyData, VisualizationDisplay.js 14-59.  The verdict is       *)
(* "valid" (returns true), "invalid" (returns false) or "throws" (reading  *)
(* .type of a null trace raises a TypeError).                              *)

\* the loop body with the y test left out of the bar/scatter case
checkTraceXOnly(trace) ==
    IF trace.k = "null" THEN "throws"
    ELSE IF ~TruthyStr(trace.type) THEN "invalid"
    ELSE IF trace.type \in {"bar", "scatter"}
         THEN IF ~IsArray(trace.x) THEN "invalid" ELSE "ok"
    ELSE IF trace.type = "pie"
         THEN IF ~IsArray(trace.values) \/ ~IsArray(trace.labels) THEN "invalid" ELSE "ok"
    ELSE "ok"

\* the body of the for-of loop for one trace: "ok" lets the loop go on
checkTrace(trace) ==
    IF trace.k = "null" THEN "throws"
    ELSE IF ~TruthyStr(trace.type) THEN "invalid"
    ELSE IF trace.type \in {"bar", "scatter"}
         THEN IF ~IsArray(trace.x) \/ ~IsArray(trace.y) THEN "invalid" ELSE "ok"
    ELSE IF trace.type = "pie"
         THEN IF ~IsArray(trace.values) \/ ~IsArray(trace.labels) THEN "invalid" ELSE "ok"
    ELSE "ok"

RECURSIVE checkTraces(_, _)
checkTraces(ts, i) ==
    IF i > Len(ts) THEN "valid"
    ELSE LET c == checkTrace(ts[i])
         IN IF c = "ok" THEN checkTraces(ts, i + 1) ELSE c

\* the validator without its test for the empty array
isValidPlotlyDataNoEmptyTest(data) ==
    IF data.k = "null" THEN "invalid"
    ELSE IF data.k # "arr" THEN "invalid"
    ELSE checkTraces(data.t, 1)

isValidPlotlyData(data) ==
    IF data.k = "null" THEN "invalid"
    ELSE IF data.k # "arr" THEN "invalid"
    ELSE IF Len(data.t) = 0 THEN "invalid"
    ELSE checkTraces(data.t, 1)

----------------------------------------------------------------------------
(* sanitizePlotlyData, VisualizationDisplay.js 79-111 *)

\* { ...trace }: the spread of null or of a number is the empty object
spreadTrace(trace) == IF trace.k = "obj" THEN trace ELSE EmptyObject

defaultType(t) ==
    IF ~TruthyStr(t.type) THEN [t EXCEPT !.type = "scatter"] ELSE t

promoteField(v) == IF Truthy(v) /\ ~IsArray(v) THEN Arr(<<v.n>>) ELSE v

promoteXY(t) ==
    IF t.type = "scatter" \/ t.type = "bar"
    THEN [t EXCEPT !.x = promoteField(t.x), !.y = promoteField(t.y)]
    ELSE t

defaultMode(t) ==
    IF t.type = "scatter" /\ ~TruthyStr(t.mode)
    THEN [t EXCEPT !.mode = "lines+markers"] ELSE t

\* the same steps with the type defaulted after the x/y promotion
sanitizeTraceTypeLast(trace) == defaultMode(defaultType(promoteXY(spreadTrace(trace))))

sanitizeTrace(trace) == defaultMode(promoteXY(defaultType(spreadTrace(trace))))

sanitizePlotlyData(data) ==
    IF data.k # "arr" THEN NoData
    ELSE ArrayData([i \in 1..Len(data.t) |-> sanitizeTrace(data.t[i])])

----------------------------------------------------------------------------
(* getPlotlyLayout, VisualizationDisplay.js 62-76.  A layout object is a   *)
(* function from its keys to their values; Omitted marks a key the object  *)
(* does not have.  A key the object has with the value null is present.    *)

LayoutKeys == {"title", "autosize", "margin", "xaxis"}

Omitted == "omitted"

\* what a candidate can hold under a key: nothing, null, or a value of its own
LayoutVals == {Omitted, "null", "candidate"}

\* plotlyLayout: undefined/null, or an object
NoLayout == [k |-> "null", f |-> [key \in LayoutKeys |-> Omitted]]
LayoutObject(f) == [k |-> "obj", f |-> f]

\* const defaultLayout = { title: visualization.title || 'Visualization', ... }
defaultLayout(v) ==
    LayoutObject([key \in LayoutKeys |->
        CASE key = "title" -> IF TruthyStr(v.title) THEN v.title ELSE "Visualization"
          [] key = "autosize" -> "true"
          [] key = "margin" -> "l50 r50 b50 t50 pad4"
          [] OTHER -> Omitted])

\* { ...a, ...b }: the keys of b over the keys of a
spread(a, b) ==
    LayoutObject([key \in LayoutKeys |-> IF b.f[key] # Omitted THEN b.f[key] ELSE a.f[key]])

\* the merge with the operands exchanged: the defaults over the candidate
getPlotlyLayoutDefaultsOver(v) ==
    IF v.plotlyLayout.k = "obj" THEN spread(v.plotlyLayout, defaultLayout(v))
    ELSE defaultLayout(v)

getPlotlyLayout(v) ==
    IF v.plotlyLayout.k = "obj" THEN spread(defaultLayout(v), v.plotlyLayout)
    ELSE defaultLayout(v)

\* the visualizations getPlotlyLayout is given: with or without a title,
\* with or without a layout
LayoutInputs ==
    {[title |-> t, plotlyLayout |-> l] :
        t \in {Absent, "", "Sales"},
        l \in {NoLayout} \cup {LayoutObject(f) : f \in [LayoutKeys -> LayoutVals]}}

LayoutIdle ==
    /\ lpc = "input"
    /\ lviz = [title |-> Absent, plotlyLayout |-> NoLayout]
    /\ layout = NoLayout

----------------------------------------------------------------------------
(* The payloads the helpers are given: what a backend response or the JSON *)
(* editor can carry as plotlyData.                                         *)

Ones(n) == [i \in 1..n |-> 1]
ArrVals == {Arr(Ones(n)) : n \in 0..MaxArrLen}

\* absent, a falsy scalar, a truthy scalar, or an array
FieldVals == {Undef, Num(0), Num(5)} \cup ArrVals

XYTrace(type, mode, x, y) ==
    [EmptyObject EXCEPT !.type = type, !.mode = mode, !.x = x, !.y = y]
PieTrace(values, labels) ==
    [EmptyObject EXCEPT !.type = "pie", !.values = values, !.labels = labels]

Traces ==
    {NullTrace, PrimTrace}
    \cup {XYTrace(ty, m, x, y) : ty \in {Absent, "scatter"}, m \in {Absent, "markers"},
                                 x \in FieldVals, y \in FieldVals}
    \cup {XYTrace("bar", Absent, x, y) : x \in FieldVals, y \in FieldVals}
    \cup {PieTrace(v, l) : v \in FieldVals, l \in FieldVals}
    \cup {XYTrace("histogram", Absent, x, Undef) : x \in FieldVals}

ValidBar == XYTrace("bar", Absent, Arr(Ones(1)), Arr(Ones(1)))
BareHistogram == XYTrace("histogram", Absent, Undef, Undef)

\* the traces that accompany an arbitrary trace in a longer list
CoreTraces == {NullTrace, ValidBar, BareHistogram}

\* trace lists of length 0..MaxTraces; a list of two or more traces holds
\* at most one trace from outside CoreTraces, at any position
TraceLists ==
    {<<>>}
    \cup {<<t>> : t \in Traces}
    \cup UNION {{[c EXCEPT ![i] = t] : c \in [1..n -> CoreTraces], i \in 1..n, t \in Traces}
                : n \in 2..MaxTraces}

Payloads == {NoData, ObjectData} \cup {ArrayData(ts) : ts \in TraceLists}

----------------------------------------------------------------------------
(* The helpers at rest, for the specifications that do not run them *)

RepairIdle ==
    /\ rpc = "input"
    /\ rdata = NoData
    /\ rverdict = "none"
    /\ rs1 = NoData
    /\ rs2 = NoData
    /\ LayoutIdle

----------------------------------------------------------------------------
(* What VisualizationDisplay returns, VisualizationDisplay.js 554-656, as  *)
(* a function of its prop and of plotlyError.                              *)

\* a visualization object of a backend response; k = "null" is no object
NoViz == [k |-> "null", type |-> Absent, title |-> Absent, error |-> Absent,
          sourceText |-> Absent, plotlyData |-> NoData, plotlyLayout |-> NoLayout]

PlotlyViz(data, sourceText) ==
    [k |-> "obj", type |-> "plotly", title |-> "Chart", error |-> Absent,
     sourceText |-> sourceText, plotlyData |-> data, plotlyLayout |-> NoLayout]

D3Viz(type) ==
    [k |-> "obj", type |-> type, title |-> "Chart", error |-> Absent,
     sourceText |-> Absent, plotlyData |-> NoData, plotlyLayout |-> NoLayout]

\* the switch of renderD3Visualization: the chart renderer it calls
renderD3Visualization(type) ==
    IF type \in {"line", "bar", "pie", "scatter"} THEN type ELSE "none"

\* one rendering: kind is "none" (the No Visualization message),
\* "errorPanel", "crash" (the render threw), "retryPanel" (plotlyError with
\* the Retry Visualization button), "plot" (the Plot element, given data)
\* or "d3" (the svg, drawn by the effect with the chart renderer named)
Output(kind, data, chart) == [kind |-> kind, data |-> data, chart |-> chart]

renderPlotly(v, perr) ==
    IF v.plotlyData.k = "null" THEN Output("errorPanel", NoData, "none")
    ELSE LET verdict == isValidPlotlyData(v.plotlyData)
             sanitizedData == sanitizePlotlyData(v.plotlyData)
         IN IF verdict = "throws" THEN Output("crash", NoData, "none")
            ELSE IF verdict = "invalid" THEN Output("errorPanel", NoData, "none")
            ELSE IF sanitizedData.k = "null" THEN Output("errorPanel", NoData, "none")
            ELSE IF TruthyStr(perr) THEN Output("retryPanel", NoData, "none")
            ELSE Output("plot", sanitizedData, "none")

Render(v, perr) ==
    IF v.k = "null" THEN Output("none", NoData, "none")
    ELSE IF TruthyStr(v.error) THEN Output("errorPanel", NoData, "none")
    ELSE IF v.type = "plotly" THEN renderPlotly(v, perr)
    ELSE Output("d3", NoData, renderD3Visualization(v.type))

\* what the component shows in the current state
Shown == Render(visualization, plotlyError)

----------------------------------------------------------------------------
(* The DataInput panel and App right after mounting: every useState at its *)
(* initial value and the ModelSelector's first /api/models request, sent   *)
(* by its mount effect, in flight.                                         *)

NoRequest == [kind |-> "none", text |-> "", model |-> ""]

\* visualizationData: null, or the response object handed to setVisualizationData
NoVisualizationData ==
    [k |-> "null", hasVisualizations |-> FALSE, visualizations |-> <<>>,
     sourceText |-> Absent]

\* a fetchModels call in flight, with the selectedModel its closure captured
Fetch(sel) == [sel |-> sel]

PanelIdle ==
    /\ text = ""
    /\ lastProcessedText = ""
    /\ error = ""
    /\ selectedModel = ""
    /\ isProcessing = FALSE
    /\ request = NoRequest
    /\ models = <<>>
    /\ msLoading = TRUE
    /\ msError = Absent
    /\ fetches = <<Fetch("")>>
    /\ visualizationData = NoVisualizationData
    /\ selectedVisualization = 0
    /\ loading = FALSE

\* no request is being timed
BackendIdle == [state |-> "idle", sinceCall |-> 0, usedFallback |-> FALSE,
                data |-> NoVisualizationData]

TimingIdle ==
    /\ sinceSent = 0
    /\ backend = BackendIdle
    /\ fate = "none"

\* no event was dispatched on window
NoEvent == [name |-> "none", detail |-> NoVisualizationData]

\* serverStatus: null, or { server, ollama }
NoStatus == [server |-> Absent, ollama |-> Absent]

\* checkServerStatus waiting for /api/status, with no fallback answer yet
StatusAsked == [pc |-> "status", body |-> [k |-> "none", list |-> <<>>]]

\* the rest of the page after mounting: the Main view, no editor error, no
\* request of an earlier DataInput, the status check sent by the mount effect
PageIdle ==
    /\ editorError = Absent
    /\ activeView = "main"
    /\ orphaned = <<>>
    /\ serverStatus = NoStatus
    /\ statusCheck = StatusAsked

\* the LoggingService after construction: nothing queued, nothing sent
NoWait == [waiting |-> FALSE, ms |-> 0]

LoggingIdle ==
    /\ logQueue = <<>>
    /\ isProcessingQueue = FALSE
    /\ sending = <<>>
    /\ timers = <<>>
    /\ logged = 0
    /\ attempts = [id \in 1..MaxLogs |-> 0]
    /\ removed = {}
    /\ sinceAttempt = NoWait
    /\ logFault = FALSE
    /\ PageIdle

DisplayIdle ==
    /\ visualization = NoViz
    /\ plotlyError = Absent
    /\ isRetrying = FALSE
    /\ lastEvent = "mount"
    /\ retryRequest = NoRequest
    /\ dispatched = NoEvent
    /\ LoggingIdle

----------------------------------------------------------------------------
(* The responses of the generation endpoints *)

\* the visualizations of a generation response
ServerViz == {PlotlyViz(ArrayData(<<ValidBar>>), Absent), D3Viz("bar")}

VizLists == UNION {[1..n -> ServerViz] : n \in 0..MaxViz}

\* "Generates up to 8 visualizations" (README, Features)
MaxVisualizations == 8

\* a list one longer than that
OverlongList == [i \in 1..(MaxVisualizations + 1) |-> D3Viz("bar")]

\* response.data of a generation endpoint: with or without visualizations
Responses ==
    {[k |-> "obj", hasVisualizations |-> FALSE, visualizations |-> <<>>,
      sourceText |-> Absent]}
    \cup {[k |-> "obj", hasVisualizations |-> TRUE, visualizations |-> vs,
           sourceText |-> Absent] : vs \in VizLists \cup {OverlongList}}

----------------------------------------------------------------------------
(* SpecRender: one mounted VisualizationDisplay.  The prop is drawn in the *)
(* initial state; the actions are the handlers that change what is shown.  *)

\* the visualizations a response can hold
Visualizations ==
    {NoViz}
    \cup {PlotlyViz(d, st) : d \in Payloads, st \in {Absent, "source"}}
    \cup {D3Viz(ty) : ty \in {Absent, "line", "bar", "pie", "scatter", "heatmap"}}
    \cup {[PlotlyViz(ArrayData(<<ValidBar>>), Absent) EXCEPT !.error = "failed"],
          [D3Viz("bar") EXCEPT !.error = "failed"]}

\* the traces typed into the JSON editor
EditorTraces ==
    CoreTraces
    \cup {PrimTrace, EmptyObject,
          XYTrace("bar", Absent, Num(5), Arr(Ones(1))),
          XYTrace("scatter", Absent, Arr(<<>>), Arr(Ones(MaxArrLen))),
          XYTrace(Absent, Absent, Arr(Ones(1)), Arr(Ones(1))),
          PieTrace(Num(5), Arr(Ones(1))),
          PieTrace(Arr(Ones(1)), Undef),
          PieTrace(Arr(Ones(1)), Arr(Ones(1)))}

\* what JSON.parse of the editor's data text can give: null, an object, or
\* an array of traces
EditorPayloads ==
    {NoData, ObjectData, ArrayData(<<>>)}
    \cup {ArrayData(<<t>>) : t \in EditorTraces}
    \cup {ArrayData(<<ValidBar, t>>) : t \in EditorTraces}

\* the layout text as the editor's effect writes it for a visualization
\* without a layout, JSON.stringify(visualization.plotlyLayout || {}), parsed
EmptyLayout == LayoutObject([key \in LayoutKeys |-> Omitted])

\* what JSON.parse of the editor's layout text can give: null, or an
\* object, here one with a title of its own
EditorLayouts ==
    {NoLayout,
     LayoutObject([key \in LayoutKeys |-> IF key = "title" THEN "candidate" ELSE Omitted])}

\* { ...visualization, ...updates } with updates = { plotlyData, plotlyLayout }
withUpdates(v, data, parsedLayout) ==
    [v EXCEPT !.plotlyData = data, !.plotlyLayout = parsedLayout]

InitRender ==
    /\ visualization \in Visualizations
    /\ plotlyError = Absent
    /\ isRetrying = FALSE
    /\ lastEvent = "mount"
    /\ retryRequest = NoRequest
    /\ dispatched = NoEvent
    /\ LoggingIdle
    /\ RepairIdle
    /\ PanelIdle
    /\ TimingIdle

\* a render that threw unmounts the application: no handler runs after it
Mounted == Shown.kind # "crash"

\* App.handleEditorUpdate with the editor's parsed data: the editor is shown
\* for a plotly visualization only, and the update replaces its plotlyData
handleEditorUpdate(data, parsedLayout) ==
    /\ Mounted
    /\ visualization.k = "obj"
    /\ visualization.type = "plotly"
    /\ visualization' = withUpdates(visualization, data, parsedLayout)
    /\ lastEvent' = "handleEditorUpdate"
    /\ UNCHANGED <<plotlyError, isRetrying, retryRequest, dispatched>>
    /\ UNCHANGED outsideDisplay

\* the Plot element's onError
PlotOnError ==
    /\ Shown.kind = "plot"
    /\ plotlyError' = "Plotly error"
    /\ lastEvent' = "onError"
    /\ UNCHANGED <<visualization, isRetrying, retryRequest, dispatched>>
    /\ UNCHANGED outsideDisplay

\* handleRetryVisualization up to its request; without a source text it
\* returns at once and changes nothing
RetryStart ==
    /\ Shown.kind = "retryPanel"
    /\ ~isRetrying
    /\ TruthyStr(visualization.sourceText)
    /\ isRetrying' = TRUE
    /\ retryRequest' = [kind |-> "retry-visualization", text |-> visualization.sourceText,
                        model |-> Absent]
    /\ lastEvent' = "retry"
    /\ UNCHANGED <<visualization, plotlyError, dispatched>>
    /\ UNCHANGED outsideDisplay

\* the names of the event handleRetryVisualization dispatches and of the
\* event App's listener is registered for
DispatchedEventName == "visualization-updated"
ListenedEventName == "visualization-update"

\* how the retry request can end: a response, or an error (no response)
RetryFailure == [NoVisualizationData EXCEPT !.k = "error"]

RetryResponses == Responses \cup {RetryFailure}

\* response.data.visualizations && response.data.visualizations.length > 0
hasVisualization(data) ==
    data.k = "obj" /\ data.hasVisualizations /\ Len(data.visualizations) > 0

\* App.getCurrentVisualization, for the data vd and the index sel: null
\* without a list or with an empty one, else the entry at sel (undefined
\* when there is none)
getCurrentVisualization(vd, sel) ==
    IF vd.k # "obj" \/ ~vd.hasVisualizations \/ Len(vd.visualizations) = 0 THEN NoViz
    ELSE IF sel + 1 \in 1..Len(vd.visualizations) THEN vd.visualizations[sel + 1]
    ELSE NoViz

\* App's handleRetryUpdate, run by dispatchEvent for an event of the name it
\* listens to: it installs the detail, and the display gets its first entry
handleRetryUpdate(name, detail) ==
    IF name = ListenedEventName /\ detail.k = "obj" /\ detail.hasVisualizations
    THEN /\ visualizationData' = detail
         /\ selectedVisualization' = 0
         /\ visualization' = getCurrentVisualization(detail, 0)
         /\ UNCHANGED loading
    ELSE UNCHANGED <<appVars, visualization>>

\* handleRetryVisualization from the response on
RetrySettle(response) ==
    /\ Mounted
    /\ isRetrying
    /\ IF hasVisualization(response)
       THEN /\ plotlyError' = Absent
            /\ dispatched' = [name |-> DispatchedEventName, detail |-> response]
            /\ handleRetryUpdate(DispatchedEventName, response)
            /\ lastEvent' = "retrySucceeded"
       ELSE /\ plotlyError' = IF response.k = "error" THEN "Retry error" ELSE "Retry failed"
            /\ lastEvent' = "retryFailed"
            /\ UNCHANGED <<dispatched, appVars, visualization>>
    /\ isRetrying' = FALSE
    /\ UNCHANGED retryRequest
    /\ UNCHANGED outsideRetry

NextRender ==
    \/ \E data \in EditorPayloads : handleEditorUpdate(data, EmptyLayout)
    \/ PlotOnError
    \/ RetryStart
    \/ \E response \in RetryResponses : RetrySettle(response)

SpecRender == InitRender /\ [][NextRender]_vars

----------------------------------------------------------------------------
(* SpecRepair: the helpers applied to one payload.  The payload is drawn   *)
(* in the initial state; the actions apply isValidPlotlyData once and      *)
(* sanitizePlotlyData twice, the second time to the first result.          *)

InitRepair ==
    /\ rpc = "input"
    /\ rdata \in Payloads
    /\ rverdict = "none"
    /\ rs1 = NoData
    /\ rs2 = NoData
    /\ LayoutIdle
    /\ DisplayIdle
    /\ PanelIdle
    /\ TimingIdle

\* isValidPlotlyData(rdata); the helper only reads its argument
Validate ==
    /\ rpc = "input"
    /\ rverdict' = isValidPlotlyData(rdata)
    /\ rpc' = "checked"
    /\ UNCHANGED <<rdata, rs1, rs2>>
    /\ UNCHANGED outsideRepair

\* sanitizePlotlyData(rdata); every trace is copied before it is changed
SanitizeOnce ==
    /\ rpc \in {"input", "checked"}
    /\ rs1' = sanitizePlotlyData(rdata)
    /\ rpc' = "once"
    /\ UNCHANGED <<rdata, rverdict, rs2>>
    /\ UNCHANGED outsideRepair

\* sanitizePlotlyData fed its own result
SanitizeAgain ==
    /\ rpc = "once"
    /\ rs2' = sanitizePlotlyData(rs1)
    /\ rpc' = "twice"
    /\ UNCHANGED <<rdata, rverdict, rs1>>
    /\ UNCHANGED outsideRepair

NextRepair == Validate \/ SanitizeOnce \/ SanitizeAgain

SpecRepair == InitRepair /\ [][NextRepair]_vars

----------------------------------------------------------------------------
(* Spec: the DataInput panel, its ModelSelector, and the App state the     *)
(* panel feeds.                                                            *)

\* what the user can have in the textarea: nothing, blanks, or data
Texts == {"", " ", "a,b"}

\* text.trim()
trim(t) == IF t = " " THEN "" ELSE t

\* the model lists /api/models can answer with
ModelLists == {<<>>, <<"m1">>, <<"m1", "m2">>}

\* how a /api/models request ends: {models: [...]}, a body without models,
\* or a network error
FetchOutcomes ==
    {[k |-> "models", list |-> l] : l \in ModelLists}
    \cup {[k |-> "nokey", list |-> <<>>], [k |-> "error", list |-> <<>>]}

\* responseWithSource of processTextData and handleRetryLastVisualization
withSource(data, t) ==
    [data EXCEPT !.sourceText = t,
                 !.visualizations = [i \in 1..Len(@) |-> [@[i] EXCEPT !.sourceText = t]]]

\* disabled={!text.trim() || !selectedModel || isProcessing}
ProcessTextDisabled == trim(text) = "" \/ ~TruthyStr(selectedModel) \/ isProcessing

\* useDropzone({ disabled: isProcessing })
DropzoneDisabled == isProcessing

\* the Retry button: rendered when lastProcessedText, disabled={isProcessing}
RetryDisabled == ~TruthyStr(lastProcessedText) \/ isProcessing

InitPanel ==
    /\ PanelIdle
    /\ RepairIdle
    /\ DisplayIdle
    /\ TimingIdle

\* the textarea's onChange
setText(t) ==
    /\ t # text
    /\ text' = t
    /\ UNCHANGED <<lastProcessedText, error, selectedModel, isProcessing, request,
                   models, msLoading, msError, fetches>>
    /\ UNCHANGED appVars

\* fetchModels from the response on.  A selection that changes selectedModel
\* gives fetchModels a new identity, so the effect sends the next request.
FetchModelsSettle(i, outcome) ==
    /\ i \in 1..Len(fetches)
    /\ LET f == fetches[i]
           rest == SubSeq(fetches, 1, i - 1) \o SubSeq(fetches, i + 1, Len(fetches))
           picked == IF outcome.k = "models" /\ ~TruthyStr(f.sel) /\ Len(outcome.list) > 0
                     THEN outcome.list[1] ELSE selectedModel
       IN /\ models' = IF outcome.k = "models" THEN outcome.list ELSE models
          /\ selectedModel' = picked
          /\ msError' = CASE outcome.k = "nokey" -> "No models found"
                          [] outcome.k = "error" -> "Failed to fetch models"
                          [] OTHER -> msError
          /\ IF picked # selectedModel
             THEN /\ fetches' = Append(rest, Fetch(picked))
                  /\ msLoading' = TRUE
             ELSE /\ fetches' = rest
                  /\ msLoading' = FALSE
          /\ UNCHANGED <<text, lastProcessedText, error, isProcessing, request>>
          /\ UNCHANGED appVars

\* the select's onChange: the select is rendered only when the selector is
\* neither loading nor in error, with one option per listed model
SelectModel(m) ==
    /\ ~msLoading
    /\ ~TruthyStr(msError)
    /\ \E k \in 1..Len(models) : models[k] = m
    /\ m # selectedModel
    /\ selectedModel' = m
    /\ fetches' = Append(fetches, Fetch(m))
    /\ msLoading' = TRUE
    /\ UNCHANGED <<text, lastProcessedText, error, isProcessing, request, models, msError>>
    /\ UNCHANGED appVars

\* a click on Process Text: processTextData up to its request
processTextData ==
    /\ ~ProcessTextDisabled
    /\ error' = ""
    /\ loading' = TRUE
    /\ isProcessing' = TRUE
    /\ lastProcessedText' = text
    /\ request' = [kind |-> "process-text", text |-> text, model |-> selectedModel]
    /\ UNCHANGED <<text, selectedModel, models, msLoading, msError, fetches>>
    /\ UNCHANGED <<visualizationData, selectedVisualization>>

\* a file dropped on the dropzone: processFile up to its request
processFile ==
    /\ ~DropzoneDisabled
    /\ error' = ""
    /\ loading' = TRUE
    /\ isProcessing' = TRUE
    /\ request' = [kind |-> "process-csv", text |-> "", model |-> selectedModel]
    /\ UNCHANGED <<text, lastProcessedText, selectedModel, models, msLoading, msError,
                   fetches>>
    /\ UNCHANGED <<visualizationData, selectedVisualization>>

\* a click on Retry: handleRetryLastVisualization up to its request
handleRetryLastVisualization ==
    /\ ~RetryDisabled
    /\ error' = ""
    /\ loading' = TRUE
    /\ isProcessing' = TRUE
    /\ request' = [kind |-> "retry-visualization", text |-> lastProcessedText,
                   model |-> selectedModel]
    /\ UNCHANGED <<text, lastProcessedText, selectedModel, models, msLoading, msError,
                   fetches>>
    /\ UNCHANGED <<visualizationData, selectedVisualization>>

\* handleDataProcessed keeping the selected index
handleDataProcessedKeepsIndex(data) ==
    /\ visualizationData' = data
    /\ UNCHANGED selectedVisualization

\* App.handleDataProcessed
handleDataProcessed(data) ==
    /\ visualizationData' = data
    /\ selectedVisualization' = 0

\* the handler that sent the request, from the response on: the text
\* handlers add the source text, processFile hands the response on as it is
RequestSucceeds(data) ==
    /\ request # NoRequest
    /\ handleDataProcessed(IF request.kind = "process-csv" THEN data
                           ELSE withSource(data, request.text))
    /\ loading' = FALSE
    /\ isProcessing' = FALSE
    /\ request' = NoRequest
    /\ UNCHANGED <<text, lastProcessedText, error, selectedModel, models, msLoading,
                   msError, fetches>>

\* the catch block with a finally block that leaves loading as it is
RequestFailsKeepsLoading ==
    /\ request # NoRequest
    /\ error' = CASE request.kind = "process-csv" -> "Error processing file"
                  [] request.kind = "process-text" -> "Error processing text"
                  [] OTHER -> "Error retrying visualization"
    /\ isProcessing' = FALSE
    /\ request' = NoRequest
    /\ UNCHANGED <<text, lastProcessedText, selectedModel, models, msLoading, msError,
                   fetches>>
    /\ UNCHANGED appVars

\* the catch and finally blocks of the handler that sent the request
RequestFails ==
    /\ request # NoRequest
    /\ error' = CASE request.kind = "process-csv" -> "Error processing file"
                  [] request.kind = "process-text" -> "Error processing text"
                  [] OTHER -> "Error retrying visualization"
    /\ loading' = FALSE
    /\ isProcessing' = FALSE
    /\ request' = NoRequest
    /\ UNCHANGED <<text, lastProcessedText, selectedModel, models, msLoading, msError,
                   fetches>>
    /\ UNCHANGED <<visualizationData, selectedVisualization>>

\* a click on an option of the VisualizationSelector
onSelect(index) ==
    /\ visualizationData.k = "obj"
    /\ visualizationData.hasVisualizations
    /\ index \in 0..(Len(visualizationData.visualizations) - 1)
    /\ index # selectedVisualization
    /\ selectedVisualization' = index
    /\ UNCHANGED <<visualizationData, loading>>
    /\ UNCHANGED inputVars

\* one step of the panel or of App, whatever else the specification holds
TypeText == \E t \in Texts : setText(t)
ModelsAnswer == \E i \in 1..Len(fetches), outcome \in FetchOutcomes : FetchModelsSettle(i, outcome)
PickModel == \E m \in {"m1", "m2"} : SelectModel(m)
PickVisualization == \E index \in 0..(MaxViz - 1) : onSelect(index)

Next ==
    \/ TypeText /\ UNCHANGED <<outsidePanel, timingVars>>
    \/ ModelsAnswer /\ UNCHANGED <<outsidePanel, timingVars>>
    \/ PickModel /\ UNCHANGED <<outsidePanel, timingVars>>
    \/ processTextData /\ UNCHANGED <<outsidePanel, timingVars>>
    \/ processFile /\ UNCHANGED <<outsidePanel, timingVars>>
    \/ handleRetryLastVisualization /\ UNCHANGED <<outsidePanel, timingVars>>
    \/ (\E data \in Responses : RequestSucceeds(data)) /\ UNCHANGED <<outsidePanel, timingVars>>
    \/ RequestFails /\ UNCHANGED <<outsidePanel, timingVars>>
    \/ PickVisualization /\ UNCHANGED <<outsidePanel, timingVars>>

Spec == InitPanel /\ [][Next]_vars

----------------------------------------------------------------------------
(* SpecHandlers: the panel of Spec with its two text handlers also called  *)
(* directly, whatever the state of their buttons.  The buttons are         *)
(* disabled or hidden exactly when the handlers' own first tests would     *)
(* turn the call away, so only a direct call reaches those branches.       *)
(* Every step records the handler that ran in lastEvent.                   *)

\* processTextData called with a blank textarea, with loading set as well
processTextDataOnEmptySetsLoading ==
    /\ trim(text) = ""
    /\ error' = "Please enter some text data"
    /\ loading' = TRUE
    /\ UNCHANGED <<text, lastProcessedText, selectedModel, isProcessing, request,
                   models, msLoading, msError, fetches>>
    /\ UNCHANGED <<visualizationData, selectedVisualization>>

\* processTextData called with a blank textarea: if (!text.trim()) { ... return; }
processTextDataOnEmpty ==
    /\ trim(text) = ""
    /\ error' = "Please enter some text data"
    /\ UNCHANGED <<text, lastProcessedText, selectedModel, isProcessing, request,
                   models, msLoading, msError, fetches>>
    /\ UNCHANGED appVars

\* handleRetryLastVisualization called with no text stored:
\* if (!lastProcessedText) { ... return; }
handleRetryOnNoText ==
    /\ ~TruthyStr(lastProcessedText)
    /\ error' = "No previous text to retry"
    /\ UNCHANGED <<text, lastProcessedText, selectedModel, isProcessing, request,
                   models, msLoading, msError, fetches>>
    /\ UNCHANGED appVars

\* the step is recorded as the named handler's; nothing else outside the
\* panel changes
Event(name) ==
    /\ lastEvent' = name
    /\ UNCHANGED <<repairVars, visualization, plotlyError, isRetrying, retryRequest,
                   dispatched, layoutVars, logVars, timingVars, pageVars>>

NextHandlers ==
    \/ TypeText /\ Event("setText")
    \/ ModelsAnswer /\ Event("fetchModels")
    \/ PickModel /\ Event("onModelSelect")
    \/ processTextData /\ Event("processTextData")
    \/ processTextDataOnEmpty /\ Event("processTextData")
    \/ processFile /\ Event("processFile")
    \/ handleRetryLastVisualization /\ Event("handleRetryLastVisualization")
    \/ handleRetryOnNoText /\ Event("handleRetryLastVisualization")
    \/ (\E data \in Responses : RequestSucceeds(data)) /\ Event("response")
    \/ RequestFails /\ Event("error")
    \/ PickVisualization /\ Event("onSelect")

SpecHandlers == InitPanel /\ [][NextHandlers]_vars

----------------------------------------------------------------------------
(* The LoggingService, services/LoggingService.js.  An entry of logQueue   *)
(* is { level, message, retries }; the id tells the entries apart.  Each   *)
(* operator below gives the next values of the service's variables.        *)

\* maxRetries = 3
maxRetries == 3

\* setTimeout(() => this.processQueue(), 1000)
RetryDelayMs == 1000

\* the clock of the service advances half the delay at a time
LogTickMs == RetryDelayMs \div 2

\* the messages the console is given: two of generation, and one that
\* reports a failed log send
LogMessages == {"Sending file to server...", "Server response: [object Object]",
                "Error processing file: Error", "Error sending log to server: Network Error"}

\* message.includes('Error sending log to server')
includesSendError(message) == message = "Error sending log to server: Network Error"

\* the guard of processQueue without its isProcessingQueue test
processQueueReturnsOnEmptyOnly(q) == Len(q) = 0

\* if (this.isProcessingQueue || this.logQueue.length === 0) return;
processQueueReturns(q) == isProcessingQueue \/ Len(q) = 0

\* processQueue up to its await, with logQueue being q: the head is sent
processQueue(q) ==
    IF processQueueReturns(q)
    THEN UNCHANGED <<isProcessingQueue, sending, attempts, sinceAttempt>>
    ELSE /\ isProcessingQueue' = TRUE
         /\ sending' = Append(sending, q[1].id)
         /\ attempts' = [attempts EXCEPT ![q[1].id] = @ + 1]
         /\ sinceAttempt' = NoWait

\* queueLog(level, message)
queueLog(level, message) ==
    IF includesSendError(message)
    THEN UNCHANGED logVars
    ELSE LET q == Append(logQueue, [id |-> logged + 1, level |-> level,
                                    message |-> message, retries |-> 0])
         IN /\ logQueue' = q
            /\ logged' = logged + 1
            /\ processQueue(q)
            /\ UNCHANGED <<timers, removed, logFault>>

\* the finally block without its setTimeout
processQueueFinallyNoTimer(q) ==
    /\ isProcessingQueue' = FALSE
    /\ timers' = timers
    /\ sinceAttempt' = IF Len(q) > 0 THEN [waiting |-> TRUE, ms |-> 0] ELSE NoWait

\* the finally block of processQueue, with logQueue being q
processQueueFinally(q) ==
    /\ isProcessingQueue' = FALSE
    /\ IF Len(q) > 0
       THEN /\ timers' = Append(timers, 0)
            /\ sinceAttempt' = [waiting |-> TRUE, ms |-> 0]
       ELSE /\ timers' = timers
            /\ sinceAttempt' = NoWait

\* the retry test with the bound itself allowed
retriesExhaustedAfterBound(retries) == retries > maxRetries

\* if (logEntry.retries >= this.maxRetries)
retriesExhausted(retries) == retries >= maxRetries

\* the removal taken from the wrong end of the queue
pop(q) == IF Len(q) = 0 THEN q ELSE SubSeq(q, 1, Len(q) - 1)

\* this.logQueue.shift()
shift(q) == IF Len(q) = 0 THEN q ELSE Tail(q)

\* the entries of q, by id
Ids(q) == {q[i].id : i \in 1..Len(q)}

\* A console function is the original one, or the override that queues
\* what it is given.
overriddenConsole == "overridden"

\* this.originalConsoleError = console.error, taken before the overrides
originalConsoleError == "original"

\* this.originalConsoleWarn = console.warn, taken before the overrides
originalConsoleWarn == "original"

\* the text sendLogToServer reports a failed send with
SendErrorReport == "Error sending log to server: Network Error"

\* the text processQueue reports a dropped entry with
DroppedReport == "Failed to send log after 3 attempts"

\* logQueue after the console function fn was called with message while a
\* send is being handled: the override queues it (its processQueue call
\* returns at once, isProcessingQueue being set), the original does not
reported(fn, q, level, message) ==
    IF fn = overriddenConsole /\ ~includesSendError(message)
    THEN Append(q, [id |-> 0, level |-> level, message |-> message, retries |-> 0])
    ELSE q

----------------------------------------------------------------------------
(* SpecLogging: the LoggingService under the file upload of the panel.     *)
(* The handlers log through the overridden console; every send of the      *)
(* service succeeds or fails, and time passes between its attempts.        *)

\* the responses of the upload: no list, an empty list, or one visualization
LoggedResponses == {r \in Responses : Len(r.visualizations) <= 1}

\* processFile with its console.log('Sending file to server...')
LoggedProcessFile ==
    /\ logged < MaxLogs
    /\ processFile
    /\ queueLog("INFO", "Sending file to server...")

\* processFile from the response on, with its console.log('Server response:', ...)
LoggedResponse ==
    /\ logged < MaxLogs
    /\ \E data \in LoggedResponses : RequestSucceeds(data)
    /\ queueLog("INFO", "Server response: [object Object]")

\* the catch of processFile, with its console.error('Error processing file:', err)
LoggedFailure ==
    /\ logged < MaxLogs
    /\ RequestFails
    /\ queueLog("ERROR", "Error processing file: Error")

\* console.log / console.error called by any other component
ConsoleCall(level, message) ==
    /\ logged < MaxLogs
    /\ queueLog(level, message)
    /\ UNCHANGED <<inputVars, appVars>>

\* the await of processQueue returns: the send of sending[i] succeeded
sendLogToServerResolves(i) ==
    /\ i \in 1..Len(sending)
    /\ sending' = SubSeq(sending, 1, i - 1) \o SubSeq(sending, i + 1, Len(sending))
    /\ logQueue' = shift(logQueue)
    /\ removed' = removed \cup (Ids(logQueue) \ Ids(shift(logQueue)))
    /\ processQueueFinally(shift(logQueue))
    /\ UNCHANGED <<logged, attempts, logFault>>
    /\ UNCHANGED <<inputVars, appVars>>

\* the await of processQueue throws: the send of sending[i] failed.
\* sendLogToServer reports the failure and rethrows; the catch block counts
\* the failure on logQueue[0], and reports the entry it drops.  With no
\* entry there its retries++ raises a TypeError and the promise of
\* processQueue is rejected.
sendLogToServerRejects(i) ==
    /\ i \in 1..Len(sending)
    /\ sending' = SubSeq(sending, 1, i - 1) \o SubSeq(sending, i + 1, Len(sending))
    /\ LET told == reported(originalConsoleError, logQueue, "ERROR", SendErrorReport)
       IN IF Len(told) = 0
          THEN /\ logFault' = TRUE
               /\ logQueue' = told
               /\ UNCHANGED removed
               /\ processQueueFinally(told)
          ELSE LET retries == told[1].retries + 1
                   q == IF retriesExhausted(retries)
                        THEN reported(originalConsoleWarn, shift(told), "WARN", DroppedReport)
                        ELSE [told EXCEPT ![1].retries = retries]
               IN /\ logQueue' = q
                  /\ removed' = removed \cup (Ids(told) \ Ids(q))
                  /\ processQueueFinally(q)
                  /\ UNCHANGED logFault
    /\ UNCHANGED <<logged, attempts>>
    /\ UNCHANGED <<inputVars, appVars>>

\* a setTimeout callback runs after its delay: this.processQueue()
TimerFires ==
    /\ Len(timers) > 0
    /\ timers[1] >= RetryDelayMs
    /\ timers' = Tail(timers)
    /\ processQueue(logQueue)
    /\ UNCHANGED <<logQueue, logged, removed, logFault>>
    /\ UNCHANGED <<inputVars, appVars>>

\* time passes while a callback is pending, and stops at a callback that
\* is due until it has run
LogTick ==
    /\ Len(timers) > 0
    /\ \A i \in 1..Len(timers) : timers[i] < RetryDelayMs
    /\ timers' = [i \in 1..Len(timers) |-> timers[i] + LogTickMs]
    /\ sinceAttempt' = IF sinceAttempt.waiting
                       THEN [sinceAttempt EXCEPT !.ms = @ + LogTickMs] ELSE sinceAttempt
    /\ UNCHANGED <<logQueue, isProcessingQueue, sending, logged, attempts, removed, logFault>>
    /\ UNCHANGED <<inputVars, appVars>>

NextLogging ==
    \/ LoggedProcessFile /\ UNCHANGED outsideLogging
    \/ LoggedResponse /\ UNCHANGED outsideLogging
    \/ LoggedFailure /\ UNCHANGED outsideLogging
    \/ (\E level \in {"INFO", "ERROR"}, message \in LogMessages : ConsoleCall(level, message))
       /\ UNCHANGED outsideLogging
    \/ (\E i \in 1..Len(sending) : sendLogToServerResolves(i)) /\ UNCHANGED outsideLogging
    \/ (\E i \in 1..Len(sending) : sendLogToServerRejects(i)) /\ UNCHANGED outsideLogging
    \/ TimerFires /\ UNCHANGED outsideLogging
    \/ LogTick /\ UNCHANGED outsideLogging

SpecLogging == InitPanel /\ [][NextLogging]_vars

\* a send in flight ends, one way or the other
SendCompletes ==
    \E i \in 1..Len(sending) : sendLogToServerResolves(i) \/ sendLogToServerRejects(i)

\* SpecLogging with every send completing and the timers running: axios
\* settles each post, and the browser runs each setTimeout callback once
\* its delay has passed
SpecLoggingFair ==
    /\ SpecLogging
    /\ WF_vars(SendCompletes /\ UNCHANGED outsideLogging)
    /\ WF_vars(TimerFires /\ UNCHANGED outsideLogging)
    /\ WF_vars(LogTick /\ UNCHANGED outsideLogging)

----------------------------------------------------------------------------
(* SpecApp: the state App keeps (the visualization data and the selected   *)
(* index) under the events that change it: a result handed to              *)
(* handleDataProcessed, a 'visualization-update' event, a click in the     *)
(* VisualizationSelector, and the PlotlyEditor applying its two texts.     *)
(* The visualization prop follows getCurrentVisualization.                 *)

\* the visualizations of a result, told apart by their titles
AppVizs ==
    {[PlotlyViz(ArrayData(<<ValidBar>>), "a,b") EXCEPT !.title = "first"],
     [PlotlyViz(ArrayData(<<ValidBar>>), Absent) EXCEPT
         !.title = "second",
         !.plotlyLayout = LayoutObject([key \in LayoutKeys |->
                              IF key = "margin" THEN "candidate" ELSE Omitted])],
     [D3Viz("bar") EXCEPT !.title = "third"]}

\* the results: without a list, or with a list of 0..MaxViz visualizations
AppResponses ==
    {[k |-> "obj", hasVisualizations |-> FALSE, visualizations |-> <<>>,
      sourceText |-> Absent]}
    \cup {[k |-> "obj", hasVisualizations |-> TRUE, visualizations |-> vs,
           sourceText |-> Absent] : vs \in UNION {[1..n -> AppVizs] : n \in 0..MaxViz}}

\* A text of the editor is taken by what JSON.parse makes of it: a value,
\* or a SyntaxError.
InvalidDataJson == [k |-> "invalid", t |-> <<>>]
InvalidLayoutJson == [k |-> "invalid", f |-> [key \in LayoutKeys |-> Omitted]]

DataTexts == {InvalidDataJson, NoData, ArrayData(<<BareHistogram>>)}
LayoutTexts == {InvalidLayoutJson} \cup EditorLayouts

\* the editor is rendered for a current visualization of type 'plotly'
editorShown(v) == v.k = "obj" /\ v.type = "plotly"

\* the error of the editor once the current visualization is v, having
\* been old: the editor is mounted afresh or unmounted with the type, and
\* its effect clears the error for a visualization with plotlyData
editorErrorAfter(old, v) ==
    IF ~editorShown(v) \/ ~editorShown(old) THEN Absent
    ELSE IF v.plotlyData.k # "null" THEN Absent
    ELSE editorError

\* the update written to the first entry, whichever is selected
updatedDataAtFirst(vd, sel, data, parsedLayout) ==
    [vd EXCEPT !.visualizations[1] = withUpdates(@, data, parsedLayout)]

\* App.handleEditorUpdate: updatedData, a copy of the data with the selected
\* entry replaced by { ...entry, ...updates }
updatedData(vd, sel, data, parsedLayout) ==
    [vd EXCEPT !.visualizations[sel + 1] = withUpdates(@, data, parsedLayout)]

\* the state outside App, the prop and the editor
outsideApp == <<repairVars, plotlyError, isRetrying, retryRequest, dispatched,
                inputVars, timingVars, layoutVars, logVars,
                activeView, orphaned, serverStatus, statusCheck>>

\* a generation ends and hands its result to App
DataProcessed(data) ==
    /\ handleDataProcessed(data)
    /\ UNCHANGED loading
    /\ visualization' = getCurrentVisualization(visualizationData', selectedVisualization')
    /\ editorError' = editorErrorAfter(visualization, visualization')
    /\ lastEvent' = "handleDataProcessed"
    /\ UNCHANGED outsideApp

\* an event of the name App listens to arrives on window
VisualizationUpdateEvent(detail) ==
    /\ handleRetryUpdate(ListenedEventName, detail)
    /\ editorError' = editorErrorAfter(visualization, visualization')
    /\ lastEvent' = "handleRetryUpdate"
    /\ UNCHANGED outsideApp

\* a click on an option of the VisualizationSelector
Select(index) ==
    /\ onSelect(index)
    /\ visualization' = getCurrentVisualization(visualizationData', selectedVisualization')
    /\ editorError' = editorErrorAfter(visualization, visualization')
    /\ lastEvent' = "onSelect"
    /\ UNCHANGED <<repairVars, plotlyError, isRetrying, retryRequest, dispatched,
                   timingVars, layoutVars, logVars,
                   activeView, orphaned, serverStatus, statusCheck>>

\* PlotlyEditor.handleApplyChanges with the two texts of the editor: both
\* are parsed, then onUpdate (App.handleEditorUpdate) is given the values;
\* a text that does not parse ends the handler in its catch
handleApplyChanges(dataText, layoutText) ==
    /\ editorShown(getCurrentVisualization(visualizationData, selectedVisualization))
    /\ IF dataText.k = "invalid" \/ layoutText.k = "invalid"
       THEN /\ editorError' = "Invalid JSON"
            /\ lastEvent' = "applyInvalid"
            /\ UNCHANGED <<appVars, visualization>>
       ELSE /\ visualizationData' =
                   updatedData(visualizationData, selectedVisualization, dataText, layoutText)
            /\ UNCHANGED <<selectedVisualization, loading>>
            /\ visualization' =
                   getCurrentVisualization(visualizationData', selectedVisualization')
            /\ editorError' = Absent
            /\ lastEvent' = "applyValid"
    /\ UNCHANGED outsideApp

NextApp ==
    \/ \E data \in AppResponses : DataProcessed(data)
    \/ \E detail \in AppResponses : VisualizationUpdateEvent(detail)
    \/ \E index \in 0..(MaxViz - 1) : Select(index)
    \/ \E dataText \in DataTexts, layoutText \in LayoutTexts :
          handleApplyChanges(dataText, layoutText)

SpecApp == InitPanel /\ [][NextApp]_vars

----------------------------------------------------------------------------
(* SpecViews: the panel of Spec under the navigation of App.  App renders  *)
(* DataInput only in the Main view, so a click on Logs unmounts the panel  *)
(* with its state and a click on Main mounts a new one.  Nothing cancels   *)
(* the request of an unmounted panel: its handler goes on to its finally   *)
(* block, where the setters of App still act and those of the panel that   *)
(* is gone do nothing.                                                     *)

\* the responses drawn for a generation request in this specification
ViewResponses ==
    {r \in Responses : r.hasVisualizations => Len(r.visualizations) = 1}

\* generation requests sent by the panel and not yet settled
requestsInFlight == (IF request = NoRequest THEN 0 ELSE 1) + Len(orphaned)

\* the panel is mounted
inMain == activeView = "main"

\* the state outside the panel, the App state and the navigation
outsideViews == <<repairVars, displayVars, layoutVars, logVars, timingVars,
                  editorError, serverStatus, statusCheck>>

\* setActiveView('logs'): DataInput and its ModelSelector are unmounted
ShowLogs ==
    /\ activeView = "main"
    /\ request = NoRequest \/ Len(orphaned) < MaxOrphans
    /\ activeView' = "logs"
    /\ orphaned' = IF request = NoRequest THEN orphaned ELSE Append(orphaned, request)
    /\ text' = ""
    /\ lastProcessedText' = ""
    /\ error' = ""
    /\ selectedModel' = ""
    /\ isProcessing' = FALSE
    /\ request' = NoRequest
    /\ models' = <<>>
    /\ msLoading' = TRUE
    /\ msError' = Absent
    /\ fetches' = <<>>
    /\ UNCHANGED appVars
    /\ UNCHANGED outsideViews

\* setActiveView('main'): a new DataInput is mounted with the initial values
\* of its useState calls, and its ModelSelector sends /api/models
ShowMain ==
    /\ activeView = "logs"
    /\ activeView' = "main"
    /\ fetches' = <<Fetch("")>>
    /\ UNCHANGED <<text, lastProcessedText, error, selectedModel, isProcessing, request,
                   models, msLoading, msError>>
    /\ UNCHANGED <<appVars, orphaned>>
    /\ UNCHANGED outsideViews

\* the request of an unmounted panel is answered: onDataProcessed and
\* setLoading are App's, setIsProcessing is the unmounted panel's
OrphanSucceeds(i, data) ==
    /\ i \in 1..Len(orphaned)
    /\ handleDataProcessed(IF orphaned[i].kind = "process-csv" THEN data
                           ELSE withSource(data, orphaned[i].text))
    /\ loading' = FALSE
    /\ orphaned' = SubSeq(orphaned, 1, i - 1) \o SubSeq(orphaned, i + 1, Len(orphaned))
    /\ UNCHANGED <<inputVars, activeView>>
    /\ UNCHANGED outsideViews

\* the request of an unmounted panel fails: setError is the unmounted
\* panel's, setLoading is App's
OrphanFails(i) ==
    /\ i \in 1..Len(orphaned)
    /\ loading' = FALSE
    /\ orphaned' = SubSeq(orphaned, 1, i - 1) \o SubSeq(orphaned, i + 1, Len(orphaned))
    /\ UNCHANGED <<visualizationData, selectedVisualization>>
    /\ UNCHANGED <<inputVars, activeView>>
    /\ UNCHANGED outsideViews

NextViews ==
    \/ inMain /\ TypeText /\ UNCHANGED <<outsidePanel, timingVars>>
    \/ inMain /\ ModelsAnswer /\ UNCHANGED <<outsidePanel, timingVars>>
    \/ inMain /\ PickModel /\ UNCHANGED <<outsidePanel, timingVars>>
    \/ inMain /\ processTextData /\ UNCHANGED <<outsidePanel, timingVars>>
    \/ inMain /\ processFile /\ UNCHANGED <<outsidePanel, timingVars>>
    \/ inMain /\ handleRetryLastVisualization /\ UNCHANGED <<outsidePanel, timingVars>>
    \/ inMain /\ (\E data \in ViewResponses : RequestSucceeds(data)) /\ UNCHANGED <<outsidePanel, timingVars>>
    \/ inMain /\ RequestFails /\ UNCHANGED <<outsidePanel, timingVars>>
    \/ ShowLogs
    \/ ShowMain
    \/ \E i \in 1..Len(orphaned), data \in ViewResponses : OrphanSucceeds(i, data)
    \/ \E i \in 1..Len(orphaned) : OrphanFails(i)

SpecViews == InitPanel /\ [][NextViews]_vars

----------------------------------------------------------------------------
(* SpecStatus: checkServerStatus, called by the mount effect of DataInput, *)
(* beside the textarea and the ModelSelector of the same panel.            *)
(* statusCheck.pc is where the check stands: "status" and "models" while   *)
(* the request of that name is pending, then "answered" (by /api/status),  *)
(* "fallback" (by /api/models, whose body is kept) or "failed".            *)

\* response.data of /api/status
Statuses == {[server |-> "ok", ollama |-> o] : o \in {"ok", "error"}}

\* response.data of /api/models: the bodies the ModelSelector is drawn, and
\* a bare array of models
ModelsBodies ==
    {b \in FetchOutcomes : b.k # "error"}
    \cup {[k |-> "array", list |-> l] : l \in ModelLists}

\* response.data.models as fetchModels reads it, [] where it sets no models
selectorModels(body) == IF body.k = "models" THEN body.list ELSE <<>>

\* modelsResponse.data && modelsResponse.data.length > 0 ? 'ok' : 'error':
\* an array has a length; for an object, length is undefined and the
\* comparison is false
fallbackOllama(body) ==
    IF body.k = "array" /\ Len(body.list) > 0 THEN "ok" ELSE "error"

\* the state outside the status check
outsideStatus == <<repairVars, displayVars, inputVars, appVars, timingVars,
                   layoutVars, logVars, editorError, activeView, orphaned>>

\* /api/status answers: try block
StatusAnswers(status) ==
    /\ statusCheck.pc = "status"
    /\ serverStatus' = status
    /\ statusCheck' = [statusCheck EXCEPT !.pc = "answered"]
    /\ UNCHANGED outsideStatus

\* /api/status fails: the catch block sends GET /api/models
StatusFails ==
    /\ statusCheck.pc = "status"
    /\ statusCheck' = [statusCheck EXCEPT !.pc = "models"]
    /\ UNCHANGED serverStatus
    /\ UNCHANGED outsideStatus

\* /api/models answers the fallback request
FallbackAnswers(body) ==
    /\ statusCheck.pc = "models"
    /\ serverStatus' = [server |-> "ok", ollama |-> fallbackOllama(body)]
    /\ statusCheck' = [pc |-> "fallback", body |-> body]
    /\ UNCHANGED outsideStatus

\* /api/models fails as well: the inner catch block
FallbackFails ==
    /\ statusCheck.pc = "models"
    /\ serverStatus' = [server |-> "error", ollama |-> "unknown"]
    /\ statusCheck' = [statusCheck EXCEPT !.pc = "failed"]
    /\ UNCHANGED outsideStatus

NextStatus ==
    \/ TypeText /\ UNCHANGED <<outsidePanel, timingVars>>
    \/ ModelsAnswer /\ UNCHANGED <<outsidePanel, timingVars>>
    \/ PickModel /\ UNCHANGED <<outsidePanel, timingVars>>
    \/ \E status \in Statuses : StatusAnswers(status)
    \/ StatusFails
    \/ \E body \in ModelsBodies : FallbackAnswers(body)
    \/ FallbackFails

SpecStatus == InitPanel /\ [][NextStatus]_vars

----------------------------------------------------------------------------
(* SpecTimeout: one generation request against the clock.  The client side *)
(* is the panel above with axios' timeout; the backend side follows the    *)
(* design of the generation orchestrator: the model call is given          *)
(* OLLAMA_API_TIMEOUT seconds, and a call that runs out of time is         *)
(* answered by the fallback generator.                                     *)

\* axios.post(..., { timeout: 60000 }) of the three generation requests
ClientTimeoutMs == 60000

\* the default of OLLAMA_API_TIMEOUT, in seconds
OLLAMA_API_TIMEOUT == 60

BackendTimeoutMs == OLLAMA_API_TIMEOUT * 1000

\* the clock advances a third of the client timeout at a time
TickMs == ClientTimeoutMs \div 3

\* a response of the backend: one to MaxVisualizations visualizations
GeneratedResponses ==
    {r \in Responses : /\ r.hasVisualizations
                       /\ Len(r.visualizations) > 0
                       /\ Len(r.visualizations) <= MaxVisualizations}

ClientTimerDue == request # NoRequest /\ sinceSent >= ClientTimeoutMs
BackendTimerDue == backend.state = "calling" /\ backend.sinceCall >= BackendTimeoutMs

\* time passes while a request or a model call is open, and stops at a
\* timer that is due until that timer has fired
Tick ==
    /\ request # NoRequest \/ backend.state = "calling"
    /\ ~ClientTimerDue
    /\ ~BackendTimerDue
    /\ sinceSent' = IF request # NoRequest THEN sinceSent + TickMs ELSE sinceSent
    /\ backend' = IF backend.state = "calling"
                  THEN [backend EXCEPT !.sinceCall = @ + TickMs] ELSE backend
    /\ UNCHANGED fate
    /\ UNCHANGED <<inputVars, appVars>>

\* one of the three handlers sends its request; the backend takes one
\* request at a time in this specification
Send(handler) ==
    /\ backend.state = "idle"
    /\ handler
    /\ sinceSent' = 0
    /\ backend' = [BackendIdle EXCEPT !.state = "sent"]
    /\ fate' = "waiting"

\* the request reaches the backend, which starts the model call
BackendReceive ==
    /\ backend.state = "sent"
    /\ backend' = [backend EXCEPT !.state = "calling", !.sinceCall = 0]
    /\ UNCHANGED <<sinceSent, fate>>
    /\ UNCHANGED <<inputVars, appVars>>

\* the model answers within its timeout and the response is sent
ModelAnswers(data) ==
    /\ backend.state = "calling"
    /\ backend.sinceCall < BackendTimeoutMs
    /\ backend' = [backend EXCEPT !.state = "responded", !.data = data]
    /\ UNCHANGED <<sinceSent, fate>>
    /\ UNCHANGED <<inputVars, appVars>>

\* the model call runs out of time: the fallback generator's result is sent
BackendTimeout(data) ==
    /\ BackendTimerDue
    /\ backend' = [backend EXCEPT !.state = "responded", !.usedFallback = TRUE,
                                  !.data = data]
    /\ UNCHANGED <<sinceSent, fate>>
    /\ UNCHANGED <<inputVars, appVars>>

\* the response reaches the client while its request is open
Deliver ==
    /\ backend.state = "responded"
    /\ RequestSucceeds(backend.data)
    /\ sinceSent' = 0
    /\ backend' = [backend EXCEPT !.state = "idle"]
    /\ fate' = "delivered"

\* axios gives up: the handler's catch runs with 'timeout of 60000ms exceeded'
ClientTimeout ==
    /\ ClientTimerDue
    /\ RequestFails
    /\ sinceSent' = 0
    /\ fate' = "error"
    /\ UNCHANGED backend

\* a response to a request the client has given up is dropped
DropResponse ==
    /\ backend.state = "responded"
    /\ request = NoRequest
    /\ backend' = [backend EXCEPT !.state = "idle"]
    /\ UNCHANGED <<sinceSent, fate>>
    /\ UNCHANGED <<inputVars, appVars>>

NextTimeout ==
    \/ TypeText /\ UNCHANGED <<outsidePanel, timingVars>>
    \/ ModelsAnswer /\ UNCHANGED <<outsidePanel, timingVars>>
    \/ Send(processTextData) /\ UNCHANGED outsidePanel
    \/ Send(processFile) /\ UNCHANGED outsidePanel
    \/ Send(handleRetryLastVisualization) /\ UNCHANGED outsidePanel
    \/ BackendReceive /\ UNCHANGED outsidePanel
    \/ (\E data \in GeneratedResponses : ModelAnswers(data)) /\ UNCHANGED outsidePanel
    \/ (\E data \in GeneratedResponses : BackendTimeout(data)) /\ UNCHANGED outsidePanel
    \/ Deliver /\ UNCHANGED outsidePanel
    \/ ClientTimeout /\ UNCHANGED outsidePanel
    \/ DropResponse /\ UNCHANGED outsidePanel
    \/ Tick /\ UNCHANGED outsidePanel

SpecTimeout == InitPanel /\ [][NextTimeout]_vars

----------------------------------------------------------------------------
(* SpecLayout: getPlotlyLayout applied to one visualization, drawn in the  *)
(* initial state.                                                          *)

InitLayout ==
    /\ lpc = "input"
    /\ lviz \in LayoutInputs
    /\ layout = NoLayout
    /\ rpc = "input"
    /\ rdata = NoData
    /\ rverdict = "none"
    /\ rs1 = NoData
    /\ rs2 = NoData
    /\ DisplayIdle
    /\ PanelIdle
    /\ TimingIdle

\* const layout = getPlotlyLayout(visualization)
ComputeLayout ==
    /\ lpc = "input"
    /\ layout' = getPlotlyLayout(lviz)
    /\ lpc' = "done"
    /\ UNCHANGED lviz
    /\ UNCHANGED outsideLayout

NextLayout == ComputeLayout

SpecLayout == InitLayout /\ [][NextLayout]_vars

----------------------------------------------------------------------------
(* Properties of the layout, checked under SpecLayout *)

\* C11: the layout given to the renderer is the defaults merged under the
\* candidate's layout: a key the candidate's plotlyLayout has keeps the
\* candidate's value, a key it omits has the default (title, autosize and
\* margin; nothing for any other key), and the default title is the
\* visualization's title, or 'Visualization' when the title is missing.
C11_LayoutMerge ==
    lpc = "done" =>
        \A key \in LayoutKeys :
            IF lviz.plotlyLayout.k = "obj" /\ lviz.plotlyLayout.f[key] # Omitted
            THEN layout.f[key] = lviz.plotlyLayout.f[key]
            ELSE layout.f[key] =
                    CASE key = "title" -> IF lviz.title \in {Absent, ""}
                                          THEN "Visualization" ELSE lviz.title
                      [] key = "autosize" -> "true"
                      [] key = "margin" -> "l50 r50 b50 t50 pad4"
                      [] OTHER -> Omitted

\* a titled visualization whose layout has a title of its own and a null
\* autosize and omits the margin: the merge kept the first two and took the
\* default margin
C11_Witness ==
    /\ lpc = "done"
    /\ lviz.title = "Sales"
    /\ lviz.plotlyLayout.k = "obj"
    /\ lviz.plotlyLayout.f["title"] = "candidate"
    /\ lviz.plotlyLayout.f["autosize"] = "null"
    /\ lviz.plotlyLayout.f["margin"] = Omitted
    /\ layout.f["title"] = "candidate"
    /\ layout.f["autosize"] = "null"
    /\ layout.f["margin"] = "l50 r50 b50 t50 pad4"

----------------------------------------------------------------------------
(* Properties of the helpers, checked under SpecRepair *)

\* C8: repair is idempotent: sanitizePlotlyData applied to its own result
\* returns that result unchanged, for every payload.
C8_SanitizeIdempotent == rpc = "twice" => rs2 = rs1

\* a payload the first pass really repaired: a trace without a type and with
\* a scalar x came out as a scatter trace with x = [5] and the default mode
C8_Witness ==
    /\ rpc = "twice"
    /\ rdata.k = "arr"
    /\ \E i \in 1..Len(rdata.t) :
          /\ rdata.t[i].k = "obj"
          /\ rdata.t[i].type = Absent
          /\ rdata.t[i].x = Num(5)
          /\ rs1.t[i].type = "scatter"
          /\ rs1.t[i].x = Arr(<<5>>)
          /\ rs1.t[i].mode = "lines+markers"

\* C9: the validator and the repair step are pure and total: on every
\* payload each ends with a verdict or a result, never by throwing, and
\* the payload it was given is left as it was.
C9_PureAndTotal ==
    [][/\ rverdict' \in {"none", "valid", "invalid"}
       /\ rdata' = rdata]_vars

----------------------------------------------------------------------------
(* Properties of the panel, checked under Spec *)

\* C1: with the LLM backend unavailable (the model list was not fetched or
\* is empty, so no model is selected) no input path is blocked: text in the
\* textarea can be submitted, and a file can be uploaded.
C1_NoInputPathBlocked ==
    (/\ fetches = <<>>
     /\ ~TruthyStr(selectedModel)
     /\ ~isProcessing
     /\ trim(text) # "")
    => (~ProcessTextDisabled /\ ~DropzoneDisabled)

\* C12: after a successful generation, from pasted text or from an uploaded
\* file, every visualization held in the application state carries its
\* source, so that it can be retried.
C12_EverySourceKept ==
    visualizationData.k = "obj" =>
        \A i \in 1..Len(visualizationData.visualizations) :
            TruthyStr(visualizationData.visualizations[i].sourceText)

\* C15: the application never holds more than MaxVisualizations
\* visualizations, whatever the server answered.
C15_AtMostEight ==
    visualizationData.k = "obj" =>
        Len(visualizationData.visualizations) <= MaxVisualizations

\* C16: a response without a visualization is not installed as the current
\* visualization data: what is installed holds at least one visualization.
C16_NeverEmpty ==
    visualizationData.k = "obj" => hasVisualization(visualizationData)

----------------------------------------------------------------------------
(* Properties of the panel's handlers, checked under SpecHandlers *)

\* C17: empty input is surfaced and never sent: processTextData run with an
\* empty or blank textarea sets the error 'Please enter some text data',
\* sends no request, and leaves loading, isProcessing, the stored text and
\* the visualizations as they were; handleRetryLastVisualization run with
\* no stored text sets an error and sends no request.
C17_EmptyInputSurfaced ==
    [][/\ (lastEvent' = "processTextData" /\ trim(text) = "") =>
              (/\ error' = "Please enter some text data"
               /\ UNCHANGED <<request, loading, isProcessing, lastProcessedText,
                              visualizationData, selectedVisualization>>)
       /\ (lastEvent' = "handleRetryLastVisualization" /\ ~TruthyStr(lastProcessedText)) =>
              (/\ TruthyStr(error')
               /\ UNCHANGED <<request, loading, isProcessing>>)]_vars

\* processTextData was run with a blank textarea after a generation that
\* left a stored text and visualizations behind
C17_Witness ==
    /\ lastEvent = "processTextData"
    /\ text = " "
    /\ error = "Please enter some text data"
    /\ request = NoRequest
    /\ TruthyStr(lastProcessedText)
    /\ hasVisualization(visualizationData)

----------------------------------------------------------------------------
(* Properties of the LoggingService, checked under SpecLogging *)

\* C18: logging failures never affect generation: whatever the sends of
\* the service do, no failure of a send escapes the service (the promise
\* of processQueue is never rejected), and a step in which a send ends or
\* a timer callback runs leaves the state of the panel and of App, and the
\* count of console calls taken, as they were.
C18_LoggingNeverInterferes ==
    /\ [](logFault = FALSE)
    /\ [][(Len(sending') < Len(sending) \/ Len(timers') < Len(timers)) =>
              UNCHANGED <<inputVars, appVars, logged>>]_vars

\* the upload was answered and its visualization installed although the
\* send of the first entry failed maxRetries times and the entry was dropped
C18_Witness ==
    /\ hasVisualization(visualizationData)
    /\ 1 \in removed
    /\ attempts[1] = maxRetries
    /\ logged = MaxLogs

\* C19: every entry is sent at most maxRetries times: it leaves the queue
\* right after its first successful send or its maxRetries-th failed one
\* (an entry still queued has failed in every attempt that ended, fewer
\* than maxRetries times), and an entry that left the queue is not sent
\* again.
C19_AtMostMaxRetries ==
    \A id \in 1..MaxLogs :
        /\ attempts[id] <= maxRetries
        /\ id \in removed =>
              (/\ attempts[id] >= 1
               /\ id \notin Ids(logQueue)
               /\ \A j \in 1..Len(sending) : sending[j] # id)
        /\ \A i \in 1..Len(logQueue) :
              logQueue[i].id = id =>
                  LET inFlight == IF \E j \in 1..Len(sending) : sending[j] = id
                                  THEN 1 ELSE 0
                  IN /\ logQueue[i].retries = attempts[id] - inFlight
                     /\ logQueue[i].retries < maxRetries

\* one entry left the queue after maxRetries sends, another after one
C19_Witness ==
    \E id, other \in 1..MaxLogs :
        /\ id \in removed
        /\ attempts[id] = maxRetries
        /\ other \in removed
        /\ attempts[other] = 1

\* C20: when an attempt ended with entries left in the queue, the next
\* attempt starts only after the wait of RetryDelayMs; a queueLog call
\* during the wait starts none.
C20_WaitBeforeNextAttempt ==
    [][(Len(sending') > Len(sending) /\ sinceAttempt.waiting) =>
           sinceAttempt.ms >= RetryDelayMs]_vars

\* C21: the log sender cannot feed itself: a failed send queues nothing,
\* no queued message contains 'Error sending log to server', and every
\* entry queued or removed came from a console call of the application.
C21_NoSelfFeeding ==
    /\ [](/\ \A i \in 1..Len(logQueue) :
                /\ logQueue[i].id \in 1..logged
                /\ ~includesSendError(logQueue[i].message)
          /\ Len(logQueue) + Cardinality(removed) = logged)
    /\ [][Len(sending') < Len(sending) => Len(logQueue') <= Len(logQueue)]_vars

\* the only entry was sent maxRetries times in vain and dropped: the
\* failures were reported, and the queue is empty
C21_Witness ==
    /\ logged = 1
    /\ removed = {1}
    /\ attempts[1] = maxRetries
    /\ logQueue = <<>>
    /\ ~isProcessingQueue

----------------------------------------------------------------------------
(* More properties of the panel's handlers, checked under SpecHandlers *)

\* C22: a generation request that fails leaves the visualizations and the
\* selected index as they were, sets an error message, and resets loading
\* and isProcessing; however a request ends, loading and isProcessing are
\* false once no request is open.
C22_FailureKeepsDisplay ==
    /\ [](request = NoRequest => (~loading /\ ~isProcessing))
    /\ [][/\ lastEvent' = "error" =>
                (/\ UNCHANGED <<visualizationData, selectedVisualization>>
                 /\ TruthyStr(error')
                 /\ ~loading'
                 /\ ~isProcessing')
          /\ lastEvent' \in {"error", "response"} => (~loading' /\ ~isProcessing')]_vars

\* a request failed while the second of several visualizations was shown
C22_Witness ==
    /\ lastEvent = "error"
    /\ hasVisualization(visualizationData)
    /\ selectedVisualization = 1
    /\ TruthyStr(error)
    /\ ~loading

----------------------------------------------------------------------------
(* More properties of the LoggingService, checked under SpecLogging *)

\* C23: at most one send is in flight, and it is the send of the head of
\* the queue; the entries are queued and sent in the order of their ids,
\* an entry being attempted only when every earlier one was removed; and
\* the entry a send takes off the queue is the entry that was sent.
C23_OneSendInOrder ==
    /\ [](/\ Len(sending) <= 1
          /\ isProcessingQueue <=> Len(sending) = 1
          /\ Len(sending) = 1 => (Len(logQueue) > 0 /\ logQueue[1].id = sending[1])
          /\ \A i \in 1..(Len(logQueue) - 1) : logQueue[i].id < logQueue[i + 1].id
          /\ \A id \in 2..MaxLogs : attempts[id] > 0 => (id - 1) \in removed)
    /\ [][(Len(sending') < Len(sending) /\ removed' # removed) =>
              removed' = removed \cup {sending[1]}]_vars

\* the second entry, queued behind the first, is being sent after the
\* first was removed
C23_Witness ==
    /\ removed = {1}
    /\ sending = <<2>>
    /\ attempts[2] = 1
    /\ isProcessingQueue

\* C24: with every send completing and the timers running, every queued
\* entry is eventually removed from the queue, and the queue is never left
\* with entries while no send is in flight and no timer is pending.
C24_EveryEntryRemoved ==
    /\ [](Len(logQueue) > 0 => (isProcessingQueue \/ Len(timers) > 0))
    /\ \A id \in 1..MaxLogs : (logged >= id) ~> (id \in removed)

\* every entry was queued and removed, one of them at its second attempt
C24_Witness ==
    /\ logged = MaxLogs
    /\ removed = 1..MaxLogs
    /\ \E id \in 1..MaxLogs : attempts[id] = 2
    /\ Len(timers) = 0

----------------------------------------------------------------------------
(* Properties of the App state, checked under SpecApp *)

\* C25: whenever the application holds a non-empty list of visualizations,
\* the selected index is an index of it (0 <= selected < length), after any
\* sequence of results, 'visualization-update' events, selections and
\* editor updates; a result that is installed sets the index to 0.
C25_SelectedIndexValid ==
    /\ [](hasVisualization(visualizationData) =>
            selectedVisualization \in 0..(Len(visualizationData.visualizations) - 1))
    /\ [][/\ lastEvent' = "handleDataProcessed" => selectedVisualization' = 0
          /\ (lastEvent' = "handleRetryUpdate" /\ visualizationData' # visualizationData)
                => selectedVisualization' = 0]_vars

\* the last entry of a list of several is selected and has been edited
C25_Witness ==
    /\ hasVisualization(visualizationData)
    /\ Len(visualizationData.visualizations) > 1
    /\ selectedVisualization = Len(visualizationData.visualizations) - 1
    /\ lastEvent = "applyValid"

\* C26: an editor update changes only plotlyData and plotlyLayout of the
\* selected visualization: the other visualizations, the length and order
\* of the list, the selected index and the other fields of the selected
\* visualization (type, title, sourceText, ...) stay as they are; an apply
\* of a text that is not JSON changes nothing and sets the editor's error.
C26_EditorUpdateFrame ==
    [][/\ lastEvent' = "applyValid" =>
            LET old == visualizationData.visualizations
                new == visualizationData'.visualizations
                s   == selectedVisualization + 1
            IN  /\ selectedVisualization' = selectedVisualization
                /\ visualizationData' = [visualizationData EXCEPT !.visualizations = new]
                /\ Len(new) = Len(old)
                /\ s \in 1..Len(old)
                /\ \A i \in 1..Len(old) : i # s => new[i] = old[i]
                /\ [new[s] EXCEPT !.plotlyData = old[s].plotlyData,
                                  !.plotlyLayout = old[s].plotlyLayout] = old[s]
                /\ editorError' = Absent
       /\ lastEvent' = "applyInvalid" =>
            /\ UNCHANGED <<visualizationData, selectedVisualization>>
            /\ editorError' # Absent]_vars

\* the second of two visualizations has been given other data and another
\* layout by the editor
C26_Witness ==
    /\ lastEvent = "applyValid"
    /\ selectedVisualization = 1
    /\ Len(visualizationData.visualizations) = 2
    /\ visualizationData.visualizations[2].title = "second"
    /\ visualizationData.visualizations[2].plotlyData = ArrayData(<<BareHistogram>>)
    /\ visualizationData.visualizations[2].plotlyLayout # NoLayout
    /\ visualizationData.visualizations[1].plotlyData = ArrayData(<<ValidBar>>)

----------------------------------------------------------------------------
(* Properties of the panel under navigation, checked under SpecViews *)

\* C27: at most one generation request sent from the panel (process-text,
\* process-csv, retry-visualization) is in flight at any time, also when
\* the user switches between the Main and Logs views while a request is
\* pending; loading is true for as long as such a request is in flight.
C27_OneRequestInFlight ==
    requestsInFlight <= 1 /\ (requestsInFlight > 0 => loading)

----------------------------------------------------------------------------
(* Properties of the status check, checked under SpecStatus *)

\* C28: when /api/status fails and /api/models answers, the server is
\* reported 'ok' and Ollama is reported 'ok' exactly when the response holds
\* at least one model in the shape the model selector reads
\* ({models: [...]}), and 'error' otherwise; when both requests fail, the
\* server is reported 'error' and Ollama 'unknown'.
C28_FallbackStatus ==
    /\ statusCheck.pc = "fallback" =>
          /\ serverStatus.server = "ok"
          /\ serverStatus.ollama \in {"ok", "error"}
          /\ serverStatus.ollama = "ok" <=> Len(selectorModels(statusCheck.body)) > 0
    /\ statusCheck.pc = "failed" =>
          serverStatus = [server |-> "error", ollama |-> "unknown"]

----------------------------------------------------------------------------
(* Properties of the request against the clock, checked under SpecTimeout *)

\* C2: when the backend's model call ran out of time, the request ends for
\* the client with the fallback result delivered, a non-empty list of
\* visualizations, and not with an error.
C2_TimeoutStillDelivers ==
    (backend.usedFallback /\ fate \in {"delivered", "error"})
    => (/\ fate = "delivered"
        /\ visualizationData.k = "obj"
        /\ Len(visualizationData.visualizations) > 0)

----------------------------------------------------------------------------
(* Properties of the rendering, checked under SpecRender *)

\* C13: every retry request, from the panel's Retry button and from the
\* in-chart Retry Visualization button alike, carries the stored source
\* and the model selected when it is sent.
C13_RetryCarriesModel ==
    [][/\ (retryRequest' # retryRequest) =>
              (/\ TruthyStr(retryRequest'.text)
               /\ retryRequest'.model = selectedModel)
       /\ (request' # request /\ request'.kind = "retry-visualization") =>
              (/\ TruthyStr(request'.text)
               /\ request'.model = selectedModel)]_vars

\* C14: after a successful in-chart retry the application's visualization
\* data is the retry response and the selected index is 0.
C14_RetryInstalled ==
    lastEvent = "retrySucceeded" =>
        (/\ visualizationData = dispatched.detail
         /\ selectedVisualization = 0)

\* the array-required fields of a trace, by its type
RequiredFields(t) ==
    IF t.type \in {"bar", "scatter"} THEN <<t.x, t.y>>
    ELSE IF t.type = "pie" THEN <<t.values, t.labels>>
    ELSE <<>>

\* the prop is a plotly visualization carrying an array of traces
PlotlyShown ==
    /\ visualization.k = "obj"
    /\ visualization.type = "plotly"
    /\ visualization.plotlyData.k = "arr"

\* nothing but the traces stands between the visualization and the Plot
\* element: no error property, no plotlyError, at least one trace
NothingElseWrong ==
    /\ PlotlyShown
    /\ ~TruthyStr(visualization.error)
    /\ plotlyError = Absent
    /\ Len(visualization.plotlyData.t) > 0

TracesShown == visualization.plotlyData.t

\* C3: a scalar in an array-required field (x or y of a bar or scatter
\* trace, values or labels of a pie trace) is promoted to a one-element
\* array, and the visualization is rendered with it.
C3_ScalarsPromoted ==
    (/\ NothingElseWrong
     /\ \A i \in 1..Len(TracesShown) :
           /\ TracesShown[i].k = "obj"
           /\ TruthyStr(TracesShown[i].type)
           /\ \A j \in 1..Len(RequiredFields(TracesShown[i])) :
                 RequiredFields(TracesShown[i])[j].k \in {"num", "arr"}
     /\ \E i \in 1..Len(TracesShown) :
           \E j \in 1..Len(RequiredFields(TracesShown[i])) :
              RequiredFields(TracesShown[i])[j].k = "num")
    => (/\ Shown.kind = "plot"
        /\ \A i \in 1..Len(TracesShown) :
              \A j \in 1..Len(RequiredFields(TracesShown[i])) :
                 LET given == RequiredFields(TracesShown[i])[j]
                     drawn == RequiredFields(Shown.data.t[i])[j]
                 IN drawn = IF given.k = "num" THEN Arr(<<given.n>>) ELSE given)

\* C4: a plotly visualization in which a bar or scatter trace has no x or
\* no y, or a pie trace no values or no labels, is rejected: an error panel
\* is shown and the traces do not reach the Plot element.
C4_MissingFieldRejected ==
    (/\ PlotlyShown
     /\ \E i \in 1..Len(TracesShown) :
           /\ TracesShown[i].k = "obj"
           /\ \E j \in 1..Len(RequiredFields(TracesShown[i])) :
                 RequiredFields(TracesShown[i])[j] = Undef)
    => Shown.kind = "errorPanel"

\* a bar, scatter or pie trace whose two required arrays are there, and one
\* is empty or their lengths differ
EmptyOrUnequal(t) ==
    /\ t.k = "obj"
    /\ Len(RequiredFields(t)) = 2
    /\ IsArray(RequiredFields(t)[1])
    /\ IsArray(RequiredFields(t)[2])
    /\ \/ Len(RequiredFields(t)[1].a) = 0
       \/ Len(RequiredFields(t)[2].a) = 0
       \/ Len(RequiredFields(t)[1].a) # Len(RequiredFields(t)[2].a)

\* C5 as stated: a plotly visualization is not rendered when a required
\* array of a trace is empty or the paired arrays differ in length.
C5_EmptyOrUnequalRejected ==
    (PlotlyShown /\ \E i \in 1..Len(TracesShown) : EmptyOrUnequal(TracesShown[i]))
    => Shown.kind # "plot"

\* C5, amended: the validator tests the required fields for being arrays
\* and for nothing else.  A visualization with a bar, scatter or pie trace
\* one of whose required fields is not an array is not rendered; one whose
\* traces all have a type and arrays in their required fields is rendered,
\* whatever the lengths of those arrays.
C5_ArraynessOnly ==
    /\ (/\ PlotlyShown
        /\ \E i \in 1..Len(TracesShown) :
              /\ TracesShown[i].k = "obj"
              /\ \E j \in 1..Len(RequiredFields(TracesShown[i])) :
                    ~IsArray(RequiredFields(TracesShown[i])[j]))
       => Shown.kind # "plot"
    /\ (/\ NothingElseWrong
        /\ \A i \in 1..Len(TracesShown) :
              /\ TracesShown[i].k = "obj"
              /\ TruthyStr(TracesShown[i].type)
              /\ \A j \in 1..Len(RequiredFields(TracesShown[i])) :
                    IsArray(RequiredFields(TracesShown[i])[j]))
       => Shown.kind = "plot"

\* a scatter trace with an empty x and a longer y is on the Plot element
C5_Witness ==
    /\ Shown.kind = "plot"
    /\ \E i \in 1..Len(TracesShown) :
          /\ EmptyOrUnequal(TracesShown[i])
          /\ TracesShown[i].type = "scatter"
          /\ Len(TracesShown[i].x.a) = 0
          /\ Len(TracesShown[i].y.a) > 0

\* C6: a trace of another kind than bar, scatter and pie is accepted only
\* with its data: a visualization holding such a trace with a type and no
\* non-empty array at all is not rendered.
C6_OtherKindsNeedPayload ==
    (/\ PlotlyShown
     /\ \E i \in 1..Len(TracesShown) :
           /\ TracesShown[i].k = "obj"
           /\ TruthyStr(TracesShown[i].type)
           /\ TracesShown[i].type \notin {"bar", "scatter", "pie"}
           /\ \A f \in {TracesShown[i].x, TracesShown[i].y,
                        TracesShown[i].values, TracesShown[i].labels} :
                 ~(IsArray(f) /\ Len(f.a) > 0))
    => Shown.kind # "plot"

\* C7: what the Plot element is given is a non-empty array of traces, each
\* with a type, each bar and scatter trace with arrays for x and y, each
\* pie trace with arrays for values and labels; for every visualization
\* and after any editor updates.
C7_OutputBoundary ==
    Shown.kind = "plot"
    => (/\ Shown.data.k = "arr"
        /\ Len(Shown.data.t) > 0
        /\ \A i \in 1..Len(Shown.data.t) :
              /\ Shown.data.t[i].k = "obj"
              /\ TruthyStr(Shown.data.t[i].type)
              /\ Shown.data.t[i].type \in {"bar", "scatter", "pie"}
                    => Len(RequiredFields(Shown.data.t[i])) = 2
              /\ \A j \in 1..Len(RequiredFields(Shown.data.t[i])) :
                    IsArray(RequiredFields(Shown.data.t[i])[j]))

\* an editor update put a bar and a pie trace on the Plot element
C7_Witness ==
    /\ lastEvent = "handleEditorUpdate"
    /\ Shown.kind = "plot"
    /\ Len(Shown.data.t) = 2
    /\ Shown.data.t[1].type = "bar"
    /\ Shown.data.t[2].type = "pie"

\* C10: a plotly trace without a type is displayed as a scatter trace with
\* mode 'lines+markers'; a visualization drawn with D3 whose type is
\* missing or unsupported gets no default kind and no chart.
C10_TypeDefaulting ==
    /\ (/\ NothingElseWrong
        /\ \A i \in 1..Len(TracesShown) :
              /\ TracesShown[i].k = "obj"
              /\ IF TruthyStr(TracesShown[i].type)
                 THEN checkTrace(TracesShown[i]) = "ok"
                 ELSE IsArray(TracesShown[i].x) /\ IsArray(TracesShown[i].y)
        /\ \E i \in 1..Len(TracesShown) : ~TruthyStr(TracesShown[i].type))
       => (/\ Shown.kind = "plot"
           /\ \A i \in 1..Len(TracesShown) :
                 ~TruthyStr(TracesShown[i].type)
                 => (/\ Shown.data.t[i].type = "scatter"
                     /\ ~TruthyStr(TracesShown[i].mode)
                           => Shown.data.t[i].mode = "lines+markers"))
    /\ (/\ visualization.k = "obj"
        /\ ~TruthyStr(visualization.error)
        /\ visualization.type \notin {"plotly", "line", "bar", "pie", "scatter"})
       => (Shown.kind = "d3" /\ Shown.chart = "none")

====
